---- MODULE Spec2Model ----
(***************************************************************************)
(* Model of raycast.py: the World / Sphere / Triangle / Light shading      *)
(* pipeline (get_first_ray_intersection, render_ray, render_intersection,  *)
(* render_light, get_light_contribution) as a call-stack state machine.    *)
(*                                                                         *)
(* Geometry.  TLC has no reals, so the model is the restriction of the     *)
(* program to scenes laid out along one line (the "axis"): every ray runs   *)
(* along the axis, so a point of a ray is one integer, its coordinate in    *)
(* units of 0.00001 (SAME_INTERSECTION_TOLERANCE).  A sphere's center is a  *)
(* pair <<x, off>>: coordinate along the axis and distance from the axis.   *)
(* Scenes use spheres centered on the axis (two hits, normal along the      *)
(* axis), touching it (one tangent hit, normal perpendicular to the axis)   *)
(* or missing it, and triangle planes perpendicular or parallel to the      *)
(* axis, so that every hit point, normal component and cosine is an         *)
(* integer and a bounced ray stays on the axis.                             *)
(*                                                                         *)
(* Values.  A brightness v is the integer v * VScale; reflectivity is      *)
(* counted in units of 1/ReflDen.                                           *)
(***************************************************************************)
EXTENDS Integers, Sequences, FiniteSets, TLC

VARIABLES objects, lights, bounces, stack, status, result, ret, entry, calls, query

vars == <<objects, lights, bounces, stack, status, result, ret, entry, calls, query>>

\* ------------------------------------------------------------------ bounds
MaxObjects == 2
MaxLights == 1

\* ------------------------------------------------------- program constants
BOUNCELIMIT == 15
SAME_INTERSECTION_TOLERANCE == 1
\* .0001, the "behind object" threshold of object_intersection_sort_method
ProjTol == 10 * SAME_INTERSECTION_TOLERANCE
\* float('inf'), above every projection of the model
Inf == 1000000000
\* 1.0 as a length
One == 10000 * ProjTol
\* 1/ReflDen is the unit of reflectivity
ReflDen == 2
\* 1.0 as a brightness: twenty times 2^15, so that .05 and BOUNCELIMIT halvings are exact
VScale == 20 * 32768

None == <<>>

Sign(n) == IF n > 0 THEN 1 ELSE IF n < 0 THEN -1 ELSE 0

Abs(n) == IF n < 0 THEN -n ELSE n

\* ------------------------------------------------------------ constructors
Sphere(center, radius, reflectivity, color) ==
    [kind |-> "Sphere", center |-> center, radius |-> radius,
     reflectivity |-> reflectivity, color |-> color]

\* a plane, given by where it meets the axis (perpendicular to it), or parallel to it
Triangle(at, parallel) ==
    [kind |-> "Triangle", at |-> at, parallel |-> parallel]

Light(position) == [position |-> position, brightness |-> 1]

\* ------------------------------------------------------------- vectormath
\* direction of a ray along the axis: its unit vector
UnitDir(ray) == Sign(ray[2] - ray[1])

get_distance(a, b) == Abs(a - b)

\* scalar projection of (ray_a[2] - ray_a[1]) onto the unit direction of ray_b
get_projection_of_ray_onto_ray(ray_a, ray_b) == (ray_a[2] - ray_a[1]) * UnitDir(ray_b)

\* half the chord the axis cuts out of a sphere at distance off from its center
HalfChord(radius, off) == CHOOSE h \in 0..radius : h * h = radius * radius - off * off

\* 0, 1 (tangent) or 2 points of the whole line through ray, in the order of the
\* line's parameter; points behind the ray's origin are not left out
get_line_intersections_with_sphere(ray, center, radius) ==
    IF center[2] > radius THEN <<>>
    ELSE IF center[2] = radius THEN <<center[1]>>
    ELSE <<center[1] - UnitDir(ray) * HalfChord(radius, center[2]),
           center[1] + UnitDir(ray) * HalfChord(radius, center[2])>>

\* 0 or 1 point of the whole line through ray; a parallel plane gives none
get_line_intersection_with_plane(ray, plane) ==
    IF plane.parallel THEN <<>> ELSE <<plane.at>>

\* ------------------------------------------------------------------ Solid
get_intersections(obj, ray) ==
    IF obj.kind = "Sphere"
    THEN get_line_intersections_with_sphere(ray, obj.center, obj.radius)
    ELSE get_line_intersection_with_plane(ray, obj)

\* (center, point): the point is on the axis
get_normal_ray(obj, point) == <<obj.center, <<point, 0>>>>

\* Returns a ray reflected across the normal at a point:
\* unit_ray_vec - 2 * unit_n_vec * dot(unit_ray_vec, unit_n_vec), from the
\* intersection. With n_vec = (nx, ny) and the ray along the axis, the component
\* of bounce_vec along the axis is d - 2 * nx * nx * d / (nx^2 + ny^2); its other
\* component, - 2 * nx * ny * d / (nx^2 + ny^2), is 0 in the scenes of the model.
get_bounced_ray(obj, ray, intersection) ==
    LET normal_ray == get_normal_ray(obj, intersection)
        nx == normal_ray[2][1] - normal_ray[1][1]
        ny == normal_ray[2][2] - normal_ray[1][2]
        d == UnitDir(ray)
        bounce_vec == d - (2 * nx * nx * d) \div (nx * nx + ny * ny)
    IN  <<intersection, intersection + bounce_vec * One>>

\* ------------------------------------------------------------------ World
\* the [obj, intersect] pairs of one object, obj being its index in world.objects
ObjectPairs(objs, i, ray) ==
    LET pts == get_intersections(objs[i], ray)
    IN  [k \in 1..Len(pts) |-> <<i, pts[k]>>]

RECURSIVE CollectIntersections(_, _, _)
\* the list the loop over self.objects has built after its first n objects
CollectIntersections(objs, n, ray) ==
    IF n = 0 THEN <<>>
    ELSE CollectIntersections(objs, n - 1, ray) \o ObjectPairs(objs, n, ray)

\* without the "behind object" test
object_intersection_sort_method_nofilter(objs, ray, x) ==
    get_projection_of_ray_onto_ray(<<ray[1], x[2]>>, ray)

object_intersection_sort_method(objs, ray, x) ==
    LET proj == get_projection_of_ray_onto_ray(<<ray[1], x[2]>>, ray)
    IN  IF proj < ProjTol THEN Inf ELSE proj

\* x put into the sorted list s behind every element whose key is not larger
InsertByKey(objs, ray, s, x) ==
    LET kx == object_intersection_sort_method(objs, ray, x)
        before == {j \in 1..Len(s) : object_intersection_sort_method(objs, ray, s[j]) <= kx}
        n == Cardinality(before)
    IN  SubSeq(s, 1, n) \o <<x>> \o SubSeq(s, n + 1, Len(s))

RECURSIVE SortByKey(_, _, _, _)
\* list.sort(key=...): stable, ascending; the first n elements of s sorted
SortByKey(objs, ray, s, n) ==
    IF n = 0 THEN <<>>
    ELSE InsertByKey(objs, ray, SortByKey(objs, ray, s, n - 1), s[n])

\* an (object, intersection) pair, or None
get_first_ray_intersection(objs, ray) ==
    LET all == CollectIntersections(objs, Len(objs), ray)
        intersections == SortByKey(objs, ray, all, Len(all))
    IN  IF intersections # <<>>
           /\ object_intersection_sort_method(objs, ray, intersections[1]) < Inf
        THEN intersections[1]
        ELSE None

\* black instead of .05
render_no_intersection_value_black(ray) == 0

render_no_intersection_value(ray) == VScale \div 20

\* ------------------------------------------------------------------ Light
\* numpy.linalg.norm of a vector <<x, y>> whose length is a whole number
Norm(v) == CHOOSE h \in 0..(Abs(v[1]) + Abs(v[2])) : h * h = v[1] * v[1] + v[2] * v[2]

\* cos(get_light_theta(normal_ray)) = dot(unit_light_vec, unit_n_vec), as a
\* brightness. The code takes normal_ray[0], the sphere's center, for the lit
\* point; the light is on the axis.
CosLightTheta(light, normal_ray) ==
    LET intersection == normal_ray[1]
        light_vec == <<intersection[1] - light.position, intersection[2]>>
        n_vec == <<normal_ray[2][1] - normal_ray[1][1], normal_ray[2][2] - normal_ray[1][2]>>
        dot == light_vec[1] * n_vec[1] + light_vec[2] * n_vec[2]
    IN  (dot * VScale) \div (Norm(light_vec) * Norm(n_vec))

\* the branch get_light_contribution takes: "none" (no intersection result),
\* "shadow" (a different intersection), "lit", or "error" (a Triangle has no
\* get_normal_ray: AttributeError)
LightBranch(light, requested_intersection, ray, objs) ==
    LET res == get_first_ray_intersection(objs, ray)
    IN  IF res = None THEN "none"
        ELSE IF get_distance(res[2], requested_intersection) < SAME_INTERSECTION_TOLERANCE
             THEN IF objs[res[1]].kind = "Sphere" THEN "lit" ELSE "error"
             ELSE "shadow"

\* with <= for <
get_light_contribution_le(light, requested_intersection, ray, objs) ==
    LET res == get_first_ray_intersection(objs, ray)
    IN  IF res = None THEN 0
        ELSE IF get_distance(res[2], requested_intersection) <= SAME_INTERSECTION_TOLERANCE
             THEN IF objs[res[1]].kind = "Sphere"
                  THEN CosLightTheta(light, get_normal_ray(objs[res[1]], res[2]))
                  ELSE 0
             ELSE 0

\* the value returned; 0 stands in where it raises
get_light_contribution(light, requested_intersection, ray, objs) ==
    LET res == get_first_ray_intersection(objs, ray)
    IN  IF res = None THEN 0
        ELSE IF get_distance(res[2], requested_intersection) < SAME_INTERSECTION_TOLERANCE
             THEN IF objs[res[1]].kind = "Sphere"
                  THEN CosLightTheta(light, get_normal_ray(objs[res[1]], res[2]))
                  ELSE 0
             ELSE 0

RECURSIVE SumContributions(_, _, _, _, _)
\* value after the loop of render_light has run over the first n lights
SumContributions(lts, n, intersection, ray, objs) ==
    IF n = 0 THEN 0
    ELSE SumContributions(lts, n - 1, intersection, ray, objs)
         + get_light_contribution(lts[n], intersection, ray, objs)

render_light(objs, lts, intersection, ray) ==
    SumContributions(lts, Len(lts), intersection, ray, objs)

\* the branches the lights took in one render_light
LightBranches(objs, lts, intersection, ray) ==
    {LightBranch(lts[k], intersection, ray, objs) : k \in 1..Len(lts)}

\* ----------------------------------------------------------- model inputs
Threads == {1, 2}

\* Sphere(center, radius, reflectivity, color)
SolidChoices ==
    { Sphere(<<0, 0>>, 20, 1, VScale),            \* hits at -20 and 20
      Sphere(<<50, 0>>, 10, 2, VScale \div 2),    \* a mirror, hits at 40 and 60
      Sphere(<<30, 0>>, 4, 0, VScale),            \* narrower than .0001, hits at 26 and 34
      Sphere(<<48, 3>>, 3, 1, VScale \div 4),     \* touches the axis at 48
      Sphere(<<48, 9>>, 3, 1, VScale),            \* misses the axis
      Triangle(90, FALSE) }                       \* plane across the axis at 90

\* on the axis, at whole distances from the centers
LightChoices == { Light(44), Light(52) }

RayChoices == { <<-40, -39>>, <<30, 31>>, <<100, 98>>, <<85, 86>> }

StartDepths == { 1, 16, 17 }

PointChoices == { -20, 39, 40, 42, 60, 90 }

\* ------------------------------------------------------------ call stack
Summary(fn, ray, bouncenum, obj, intersection, val) ==
    [fn |-> fn, ray |-> ray, bouncenum |-> bouncenum, obj |-> obj,
     intersection |-> intersection, val |-> val]

NoGot == Summary("none", <<0, 0>>, 0, 0, 0, 0)

LightRec(intersection, ray, val, branches) ==
    [intersection |-> intersection, ray |-> ray, val |-> val, branches |-> branches]

NoLight == LightRec(0, <<0, 0>>, 0, {})

Frame(fn, pc, ray, bouncenum, obj, intersection, got) ==
    [fn |-> fn, pc |-> pc, ray |-> ray, bouncenum |-> bouncenum, obj |-> obj,
     intersection |-> intersection, got |-> got]

\* what a finished call leaves behind: the frame, the value, whether the bounce
\* limit branch was taken, the call it waited for and its render_light
RetRec(f, val, base, light) ==
    [fn |-> f.fn, ray |-> f.ray, bouncenum |-> f.bouncenum, obj |-> f.obj,
     intersection |-> f.intersection, val |-> val, base |-> base, got |-> f.got,
     light |-> light]

NoRet == RetRec(Frame("none", "none", <<0, 0>>, 0, 0, 0, NoGot), 0, FALSE, NoLight)

\* the outermost call, and the shared state it found
Entry(op, ray, bouncenum, bs) ==
    [op |-> op, ray |-> ray, bouncenum |-> bouncenum,
     objects |-> objects, lights |-> lights, bounces |-> bs]

NoEntry == [op |-> "none", ray |-> <<0, 0>>, bouncenum |-> 0,
            objects |-> <<>>, lights |-> <<>>, bounces |-> <<>>]

Query(op, obj, light, ray, arg, outcome, val, pair, rayval) ==
    [op |-> op, obj |-> obj, light |-> light, ray |-> ray, arg |-> arg,
     outcome |-> outcome, val |-> val, pair |-> pair, rayval |-> rayval]

NoQuery == Query("none", 0, 0, <<0, 0>>, 0, "none", 0, None, None)

Top(t) == stack[t][Len(stack[t])]

Building == /\ \A t \in Threads : status[t] \in {"idle", "off"}
            /\ query = NoQuery

\* ------------------------------------------------------------------ Init
\* World(): no objects, no lights; one thread renders
Init ==
    /\ objects = <<>>
    /\ lights = <<>>
    /\ bounces = <<>>
    /\ stack = [t \in Threads |-> <<>>]
    /\ result = [t \in Threads |-> 0]
    /\ ret = [t \in Threads |-> NoRet]
    /\ entry = [t \in Threads |-> NoEntry]
    /\ calls = [t \in Threads |-> 0]
    /\ query = NoQuery
    /\ status = [t \in Threads |-> IF t = 1 THEN "idle" ELSE "off"]
    /\ status = [t \in Threads |-> IF t = 1 THEN "idle" ELSE "off"]

\* --------------------------------------------------------- construction
add_object(obj) ==
    /\ Building
    /\ Len(objects) < MaxObjects
    /\ objects' = Append(objects, obj)
    /\ UNCHANGED <<lights, bounces, stack, status, result, ret, entry, calls, query>>

add_light(light) ==
    /\ Building
    /\ Len(lights) < MaxLights
    /\ lights' = Append(lights, light)
    /\ UNCHANGED <<objects, bounces, stack, status, result, ret, entry, calls, query>>

\* ------------------------------------------------------------ rendering
\* the call self.render_ray(ray, bouncenum) made from outside the recursion
Enter(t, op, ray, bouncenum, bs) ==
    /\ stack' = [stack EXCEPT ![t] = <<Frame("render_ray", "start", ray, bouncenum, 0, 0, NoGot)>>]
    /\ status' = [status EXCEPT ![t] = "running"]
    /\ result' = [result EXCEPT ![t] = 0]
    /\ ret' = [ret EXCEPT ![t] = NoRet]
    /\ calls' = [calls EXCEPT ![t] = 0]
    /\ entry' = [entry EXCEPT ![t] = Entry(op, ray, bouncenum, bs)]
    /\ UNCHANGED <<objects, lights, query>>

\* one pass of the loop of render_view: bounces = [], then render_ray(ray, 1)
render_view(t, ray) ==
    /\ status[t] \in {"idle", "done"}
    /\ query = NoQuery
    /\ bounces' = <<>>
    /\ Enter(t, "render_view", ray, 1, <<>>)

\* one pass of the loop of debug_render_view: render_ray(ray, 1)
debug_render_view(t, ray) ==
    /\ status[t] = "idle"
    /\ query = NoQuery
    /\ UNCHANGED bounces
    /\ Enter(t, "debug_render_view", ray, 1, bounces)

\* World.render_ray called with any bouncenum
render_ray(t, ray, bouncenum) ==
    /\ status[t] = "idle"
    /\ query = NoQuery
    /\ UNCHANGED bounces
    /\ Enter(t, "render_ray", ray, bouncenum, bounces)

\* return rec.val from the top frame of t to its caller, or to the outside
Return(t, rec) ==
    LET rest == SubSeq(stack[t], 1, Len(stack[t]) - 1)
        sm == Summary(rec.fn, rec.ray, rec.bouncenum, rec.obj, rec.intersection, rec.val)
    IN  /\ ret' = [ret EXCEPT ![t] = rec]
        /\ IF rest = <<>>
           THEN /\ stack' = [stack EXCEPT ![t] = <<>>]
                /\ status' = [status EXCEPT ![t] = "done"]
                /\ result' = [result EXCEPT ![t] = rec.val]
           ELSE /\ stack' = [stack EXCEPT ![t] =
                        [rest EXCEPT ![Len(rest)] = [@ EXCEPT !.got = sm, !.pc = "resume"]]]
                /\ UNCHANGED <<status, result>>

\* an exception nobody catches: every frame of t is left
Raise(t, f, what) ==
    /\ ret' = [ret EXCEPT ![t] = RetRec([f EXCEPT !.fn = what], 0, FALSE, NoLight)]
    /\ stack' = [stack EXCEPT ![t] = <<>>]
    /\ status' = [status EXCEPT ![t] = "raised"]
    /\ UNCHANGED result

\* render_ray up to its call of obj.render_intersection, or its return of .05;
\* a Triangle has Solid's render_intersection, which raises NotImplementedError
RenderRayStart(t) ==
    /\ status[t] = "running"
    /\ Top(t).fn = "render_ray"
    /\ Top(t).pc = "start"
    /\ LET f == Top(t)
           res == get_first_ray_intersection(objects, f.ray)
       IN  IF res = None
           THEN Return(t, RetRec(f, render_no_intersection_value(f.ray), FALSE, NoLight))
           ELSE LET g == [f EXCEPT !.obj = res[1], !.intersection = res[2], !.pc = "wait"]
                IN  IF objects[res[1]].kind = "Sphere"
                    THEN /\ stack' = [stack EXCEPT ![t] =
                                [@ EXCEPT ![Len(@)] = g] \o
                                <<Frame("render_intersection", "append", f.ray,
                                        f.bouncenum, res[1], res[2], NoGot)>>]
                         /\ UNCHANGED <<status, result, ret>>
                    ELSE Raise(t, g, "NotImplementedError")
    /\ UNCHANGED <<objects, lights, bounces, entry, calls, query>>

\* render_ray returns what render_intersection returned
RenderRayReturn(t) ==
    /\ status[t] = "running"
    /\ Top(t).fn = "render_ray"
    /\ Top(t).pc = "resume"
    /\ Return(t, RetRec(Top(t), Top(t).got.val, FALSE, NoLight))
    /\ UNCHANGED <<objects, lights, bounces, entry, calls, query>>

\* with world.objects.append(self) for bounces.append(self)
RenderIntersectionAppend_objects(t) ==
    /\ status[t] = "running"
    /\ Top(t).fn = "render_intersection"
    /\ Top(t).pc = "append"
    /\ objects' = Append(objects, objects[Top(t).obj])
    /\ stack' = [stack EXCEPT ![t] = [@ EXCEPT ![Len(@)] = [@ EXCEPT !.pc = "check"]]]
    /\ UNCHANGED <<bounces, lights, status, result, ret, entry, calls, query>>

\* bounces.append(self)
RenderIntersectionAppend(t) ==
    /\ status[t] = "running"
    /\ Top(t).fn = "render_intersection"
    /\ Top(t).pc = "append"
    /\ bounces' = Append(bounces, Top(t).obj)
    /\ stack' = [stack EXCEPT ![t] = [@ EXCEPT ![Len(@)] = [@ EXCEPT !.pc = "check"]]]
    /\ UNCHANGED <<objects, lights, status, result, ret, entry, calls, query>>

\* with >= for >
BounceLimitReached_early(bouncenum) == bouncenum >= BOUNCELIMIT

\* one level late
BounceLimitReached_late(bouncenum) == bouncenum > BOUNCELIMIT + 1

\* if bouncenum > BOUNCELIMIT
BounceLimitReached(bouncenum) == bouncenum > BOUNCELIMIT

\* a value that reads the shared list
BounceLimitValue_shared(obj, bs) == IF Len(bs) > 1 THEN 0 ELSE obj.color

\* the value of the bounce limit branch
BounceLimitValue(obj, bs) == obj.color

\* the arguments of world.render_ray(bounce_ray, bouncenum+1)
BounceCall(obj, f) ==
    <<get_bounced_ray(obj, f.ray, f.intersection), f.bouncenum + 1>>

\* with the bounced ray for the ray
LightCall_bounced(obj, f) ==
    <<f.intersection, get_bounced_ray(obj, f.ray, f.intersection)>>

\* the arguments of world.render_light(intersection, ray)
LightCall(obj, f) == <<f.intersection, f.ray>>

\* with the color weighted by the reflectivity
Shade_colored(obj, bounced, light) ==
    (obj.reflectivity * obj.color + obj.reflectivity * bounced
     + (ReflDen - obj.reflectivity) * light) \div ReflDen

\* (0.0) * color + reflectivity * bounced + (1 - reflectivity) * light
Shade(obj, bounced, light) ==
    (0 * obj.color + obj.reflectivity * bounced + (ReflDen - obj.reflectivity) * light)
        \div ReflDen

\* render_intersection from the test of the bounce limit: bounces = [] and the
\* return of self.color, or the call of world.render_ray
RenderIntersectionCheck(t) ==
    /\ status[t] = "running"
    /\ Top(t).fn = "render_intersection"
    /\ Top(t).pc = "check"
    /\ LET f == Top(t)
           obj == objects[f.obj]
       IN  IF BounceLimitReached(f.bouncenum)
           THEN /\ bounces' = <<>>
                /\ Return(t, RetRec(f, BounceLimitValue(obj, bounces), TRUE, NoLight))
                /\ UNCHANGED calls
           ELSE /\ stack' = [stack EXCEPT ![t] =
                        [@ EXCEPT ![Len(@)] = [f EXCEPT !.pc = "wait"]] \o
                        <<Frame("render_ray", "start", BounceCall(obj, f)[1],
                                BounceCall(obj, f)[2], 0, 0, NoGot)>>]
                /\ calls' = [calls EXCEPT ![t] = @ + 1]
                /\ UNCHANGED <<bounces, status, result, ret>>
    /\ UNCHANGED <<objects, lights, entry, query>>

\* render_intersection after world.render_ray has returned: world.render_light
\* and the return of the weighted sum
RenderIntersectionResume(t) ==
    /\ status[t] = "running"
    /\ Top(t).fn = "render_intersection"
    /\ Top(t).pc = "resume"
    /\ LET f == Top(t)
           obj == objects[f.obj]
           a == LightCall(obj, f)
           light == render_light(objects, lights, a[1], a[2])
       IN  Return(t, RetRec(f, Shade(obj, f.got.val, light), FALSE,
                            LightRec(a[1], a[2], light,
                                     LightBranches(objects, lights, a[1], a[2]))))
    /\ UNCHANGED <<objects, lights, bounces, entry, calls, query>>

Step(t) ==
    \/ RenderRayStart(t)
    \/ RenderRayReturn(t)
    \/ RenderIntersectionAppend(t)
    \/ RenderIntersectionCheck(t)
    \/ RenderIntersectionResume(t)

\* ---------------------------------------------- calls of single methods
\* world.get_first_ray_intersection(ray)
FirstQuery(ray) ==
    /\ Building
    /\ query' = Query("get_first_ray_intersection", 0, 0, ray, 0, "returned", 0,
                      get_first_ray_intersection(objects, ray), None)
    /\ UNCHANGED <<objects, lights, bounces, stack, status, result, ret, entry, calls>>

\* world.lights[k].get_light_contribution(requested_intersection, ray, world)
LightQuery(k, requested_intersection, ray) ==
    /\ Building
    /\ k \in 1..Len(lights)
    /\ LET b == LightBranch(lights[k], requested_intersection, ray, objects)
       IN  query' = Query("get_light_contribution", 0, k, ray, requested_intersection,
                          IF b = "error" THEN "AttributeError" ELSE "returned",
                          get_light_contribution(lights[k], requested_intersection, ray, objects),
                          None, None)
    /\ UNCHANGED <<objects, lights, bounces, stack, status, result, ret, entry, calls>>

\* what obj.get_bounced_ray(ray, intersection) does: Sphere returns the ray,
\* Triangle's body is pass and returns None
BounceOutcome(obj, ray, intersection) ==
    IF obj.kind = "Sphere"
    THEN <<"returned", get_bounced_ray(obj, ray, intersection)>>
    ELSE <<"returned", None>>

\* world.objects[i].get_bounced_ray(ray, intersection), at a point of the solid
BounceQuery(i, ray, intersection) ==
    /\ Building
    /\ i \in 1..Len(objects)
    /\ \E k \in 1..Len(get_intersections(objects[i], ray)) :
           get_intersections(objects[i], ray)[k] = intersection
    /\ LET o == BounceOutcome(objects[i], ray, intersection)
       IN  query' = Query("get_bounced_ray", i, 0, ray, intersection, o[1], 0, None, o[2])
    /\ UNCHANGED <<objects, lights, bounces, stack, status, result, ret, entry, calls>>

\* ------------------------------------------------------- specifications
Next ==
    \/ \E obj \in SolidChoices : add_object(obj)
    \/ \E light \in LightChoices : add_light(light)
    \/ \E ray \in RayChoices : render_view(1, ray)
    \/ \E ray \in RayChoices : debug_render_view(1, ray)
    \/ \E ray \in RayChoices, bouncenum \in StartDepths : render_ray(1, ray, bouncenum)
    \/ Step(1)
    \/ \E ray \in RayChoices : FirstQuery(ray)
    \/ \E k \in 1..MaxLights, p \in PointChoices, ray \in RayChoices : LightQuery(k, p, ray)
    \/ \E i \in 1..MaxObjects, p \in PointChoices, ray \in RayChoices : BounceQuery(i, ray, p)

Spec == Init /\ [][Next]_vars

\* ---- two threads render over one fully constructed World
ConcWorlds ==
    { <<Sphere(<<0, 0>>, 20, 1, VScale)>>,
      <<Sphere(<<0, 0>>, 20, 1, VScale), Sphere(<<50, 0>>, 10, 2, VScale \div 2)>>,
      <<Sphere(<<50, 0>>, 10, 2, VScale \div 2), Triangle(90, FALSE)>> }

ConcLights == { <<>>, <<Light(44)>> }

ConcRays == { <<30, 31>>, <<30, 28>>, <<100, 98>> }

ConcDepths == { 15, 16 }

\* the World after its construction, before any rendering
ConcInit ==
    /\ objects \in ConcWorlds
    /\ lights \in ConcLights
    /\ bounces = <<>>
    /\ stack = [t \in Threads |-> <<>>]
    /\ result = [t \in Threads |-> 0]
    /\ ret = [t \in Threads |-> NoRet]
    /\ entry = [t \in Threads |-> NoEntry]
    /\ calls = [t \in Threads |-> 0]
    /\ query = NoQuery
    /\ status = [t \in Threads |-> "idle"]

ConcNext ==
    \/ \E t \in Threads, ray \in ConcRays, bouncenum \in ConcDepths :
           render_ray(t, ray, bouncenum)
    \/ \E t \in Threads : Step(t)

ConcSpec == ConcInit /\ [][ConcNext]_vars

\* ------------------------------------------------- sequential evaluation
Raised == -Inf

RECURSIVE RadianceAlone(_, _, _, _)
\* what render_ray(ray, bouncenum) returns when nothing else runs, Raised when
\* it raises: render_ray and render_intersection, one inside the other
RadianceAlone(objs, lts, ray, bouncenum) ==
    LET res == get_first_ray_intersection(objs, ray)
    IN  IF res = None THEN render_no_intersection_value(ray)
        ELSE IF objs[res[1]].kind # "Sphere" THEN Raised
        ELSE IF bouncenum > BOUNCELIMIT THEN objs[res[1]].color
        ELSE LET bounced == RadianceAlone(objs, lts,
                                get_bounced_ray(objs[res[1]], ray, res[2]), bouncenum + 1)
             IN  IF bounced = Raised THEN Raised
                 ELSE Shade(objs[res[1]], bounced, render_light(objs, lts, res[2], ray))

TypeOK ==
    /\ \A t \in Threads : status[t] \in {"off", "idle", "running", "done", "raised"}
    /\ \A t \in Threads : status[t] = "running" <=> stack[t] # <<>>
    /\ bounces \in Seq(1..Len(objects))

\* ================================================================ claims
Max(a, b) == IF a > b THEN a ELSE b

\* every (object, point) pair the solids' get_intersections give for ray
Candidates(ray) ==
    UNION {{<<i, get_intersections(objects[i], ray)[k]>> :
              k \in 1..Len(get_intersections(objects[i], ray))} : i \in 1..Len(objects)}

Proj(ray, c) == (c[2] - ray[1]) * Sign(ray[2] - ray[1])

\* the pairs in front of the ray's origin by at least .0001
Forward(ray) == {c \in Candidates(ray) : Proj(ray, c) >= ProjTol}

NearestForward(ray, r) ==
    /\ (r = None) <=> (Forward(ray) = {})
    /\ r # None => /\ r \in Forward(ray)
                   /\ \A c \in Forward(ray) : Proj(ray, r) <= Proj(ray, c)

\* C2: get_first_ray_intersection(ray) returns a pair of smallest projection among
\* the pairs whose projection is at least .0001, never a pair whose projection is
\* below .0001, and None exactly when no pair has a projection of at least .0001;
\* the pair render_ray hands to render_intersection is such a pair.
C2_FirstIsNearestForward ==
    /\ query.op = "get_first_ray_intersection" => NearestForward(query.ray, query.pair)
    /\ \A t \in Threads :
           (stack[t] # <<>> /\ Top(t).pc = "append") =>
               NearestForward(Top(t).ray, <<Top(t).obj, Top(t).intersection>>)

\* a hit is returned although another pair lies behind the origin (or nearer than
\* .0001) and another one lies farther ahead
C2_Witness ==
    /\ query.op = "get_first_ray_intersection"
    /\ query.pair # None
    /\ \E c \in Candidates(query.ray) : Proj(query.ray, c) < ProjTol /\ Proj(query.ray, c) > 0
    /\ \E c \in Forward(query.ray) : Proj(query.ray, c) > Proj(query.ray, query.pair)

\* C3: render_ray returns exactly .05 when the ray has no forward intersection, at
\* every depth, and otherwise what the nearest solid's render_intersection(hit,
\* ray, world, depth) returned.
C3_BackgroundOrShade ==
    \A t \in Threads :
        ret[t].fn = "render_ray" =>
            LET r == ret[t]
                first == get_first_ray_intersection(objects, r.ray)
            IN  IF Forward(r.ray) = {}
                THEN r.val * 20 = VScale /\ r.got = NoGot
                ELSE /\ r.got = Summary("render_intersection", r.ray, r.bouncenum,
                                        first[1], first[2], r.val)
                     /\ r.obj = first[1]

\* a bounced ray, below the first call, leaves the scene and gets .05
C3_Witness ==
    /\ ret[1].fn = "render_ray"
    /\ ret[1].got = NoGot
    /\ ret[1].val * 20 = VScale
    /\ ret[1].bouncenum > 1
    /\ Len(stack[1]) >= 2
    /\ objects # <<>>

\* C4: render_intersection with a depth above the bounce limit 15 returns the
\* sphere's color without calling render_ray or render_light; with a depth from 1
\* to 15 it does not take that branch.
C4_BounceLimitBase ==
    \A t \in Threads :
        /\ ret[t].fn = "render_intersection" =>
              /\ ret[t].bouncenum >= 16 =>
                    /\ ret[t].base
                    /\ ret[t].val = objects[ret[t].obj].color
                    /\ ret[t].got = NoGot
                    /\ ret[t].light = NoLight
              /\ ret[t].bouncenum \in 1..15 => ~ret[t].base
        /\ \A k \in 1..Len(stack[t]) :
              (stack[t][k].fn = "render_intersection" /\ stack[t][k].bouncenum >= 16)
                  => k = Len(stack[t])

C4_Witness ==
    /\ ret[1].fn = "render_intersection"
    /\ ret[1].bouncenum = 16
    /\ ret[1].base
    /\ entry[1].bouncenum = 1
    /\ lights # <<>>

\* C5: below the limit render_intersection returns reflectivity * render_ray(bounced
\* ray, depth + 1) + (1 - reflectivity) * render_light(hit, ray); the color has
\* weight 0.
C5_ShadeFormula ==
    \A t \in Threads :
        (ret[t].fn = "render_intersection" /\ ret[t].bouncenum <= BOUNCELIMIT) =>
            LET r == ret[t]
                obj == objects[r.obj]
            IN  /\ r.got.fn = "render_ray"
                /\ r.got.bouncenum = r.bouncenum + 1
                /\ r.got.ray = get_bounced_ray(obj, r.ray, r.intersection)
                /\ r.light.intersection = r.intersection
                /\ r.light.ray = r.ray
                /\ r.light.val = render_light(objects, lights, r.intersection, r.ray)
                /\ ReflDen * r.val = obj.reflectivity * r.got.val
                                     + (ReflDen - obj.reflectivity) * r.light.val

\* both terms count, and the color is neither of them
C5_Witness ==
    /\ ret[1].fn = "render_intersection"
    /\ ~ret[1].base
    /\ objects[ret[1].obj].reflectivity = 1
    /\ ret[1].got.val # 0
    /\ ret[1].light.val # 0
    /\ ret[1].val # objects[ret[1].obj].color

\* the nearest intersection along the query's ray matches the requested point
QueryMatched ==
    /\ Forward(query.ray) # {}
    /\ \E c \in Forward(query.ray) :
           /\ \A e \in Forward(query.ray) : Proj(query.ray, c) <= Proj(query.ray, e)
           /\ Abs(c[2] - query.arg) < SAME_INTERSECTION_TOLERANCE

\* C6: get_light_contribution returns exactly 0 when there is no intersection along
\* ray or the nearest one is not nearer than .00001 to the requested point,
\* whatever the angle; it returns cos(theta) of the nearest point's normal only when
\* the nearest intersection is nearer than .00001 to the requested point.
C6_ShadowIsZero ==
    query.op = "get_light_contribution" =>
        LET first == get_first_ray_intersection(objects, query.ray)
        IN  /\ ~QueryMatched => (query.outcome = "returned" /\ query.val = 0)
            /\ (QueryMatched /\ query.outcome = "returned") =>
                   query.val = CosLightTheta(lights[query.light],
                                   get_normal_ray(objects[first[1]], first[2]))

\* the requested point is exactly .00001 from the nearest hit, whose cosine is not 0
C6_Witness ==
    /\ query.op = "get_light_contribution"
    /\ query.val = 0
    /\ Forward(query.ray) # {}
    /\ ~QueryMatched
    /\ LET first == get_first_ray_intersection(objects, query.ray)
       IN  /\ Abs(first[2] - query.arg) = SAME_INTERSECTION_TOLERANCE
           /\ objects[first[1]].kind = "Sphere"
           /\ CosLightTheta(lights[query.light],
                  get_normal_ray(objects[first[1]], first[2])) # 0

RECURSIVE SumCos(_, _, _)
SumCos(lts, n, normal_ray) ==
    IF n = 0 THEN 0 ELSE SumCos(lts, n - 1, normal_ray) + CosLightTheta(lts[n], normal_ray)

\* C10: render_intersection calls render_light with its own ray and with the hit
\* point get_first_ray_intersection(ray) returned, so no light takes the "no
\* intersection" or the "in shadow" branch, and the direct light is the sum of
\* cos(theta) over all lights.
C10_RenderLightNeverShadowed ==
    \A t \in Threads :
        (ret[t].fn = "render_intersection" /\ ~ret[t].base) =>
            LET r == ret[t]
            IN  /\ r.light.ray = r.ray
                /\ r.light.intersection = r.intersection
                /\ <<r.obj, r.intersection>> = get_first_ray_intersection(objects, r.ray)
                /\ r.light.branches \subseteq {"lit"}
                /\ r.light.val = SumCos(lights, Len(lights),
                                        get_normal_ray(objects[r.obj], r.intersection))

C10_Witness ==
    /\ ret[1].fn = "render_intersection"
    /\ ~ret[1].base
    /\ ret[1].light.branches = {"lit"}
    /\ ret[1].light.val # 0
    /\ ret[1].bouncenum > entry[1].bouncenum

\* C8 as stated: after a render_ray evaluation the World's objects and lights and
\* every process-wide variable (bounces) hold the value they held before it.
C8_Original ==
    \A t \in Threads :
        status[t] = "done" =>
            /\ objects = entry[t].objects
            /\ lights = entry[t].lights
            /\ bounces = entry[t].bounces

\* C8 amended: a render_ray evaluation leaves the World's objects and lights as
\* they were, whether it returns or raises; of the shared state it writes only the
\* process-wide bounces list, which holds indices of hit spheres.
C8_WorldUnchanged ==
    \A t \in Threads :
        status[t] \in {"running", "done", "raised"} =>
            /\ objects = entry[t].objects
            /\ lights = entry[t].lights
            /\ \A k \in 1..Len(bounces) :
                   bounces[k] \in 1..Len(objects) /\ objects[bounces[k]].kind = "Sphere"

C8_Witness ==
    /\ status[1] = "done"
    /\ objects # <<>>
    /\ lights # <<>>
    /\ bounces # entry[1].bounces
    /\ calls[1] > 0

\* C1 as stated: render_ray returns a scalar (it never raises) after at most
\* 16 - depth nested calls of render_ray.
C1_Original ==
    \A t \in Threads :
        /\ status[t] # "raised"
        /\ status[t] = "done" => calls[t] <= 16 - entry[t].bouncenum

\* the depth of frame k of a stack that started at depth d
DepthAt(d, k) == d + (k - 1) \div 2

\* the guards of the five steps: a frame on top of the stack is at one of them
CanStep(t) ==
    /\ stack[t] # <<>>
    /\ \/ Top(t).fn = "render_ray" /\ Top(t).pc \in {"start", "resume"}
       \/ Top(t).fn = "render_intersection" /\ Top(t).pc \in {"append", "check", "resume"}

C1_Bounded ==
    \A t \in Threads :
        /\ status[t] \in {"running", "done", "raised"} =>
               calls[t] <= Max(0, 16 - entry[t].bouncenum)
        /\ \A k \in 1..Len(stack[t]) :
               /\ stack[t][k].bouncenum = DepthAt(entry[t].bouncenum, k)
               /\ stack[t][k].fn = (IF k % 2 = 1 THEN "render_ray" ELSE "render_intersection")
               /\ (k >= 3 /\ k % 2 = 1) => stack[t][k - 1].bouncenum <= BOUNCELIMIT
        /\ status[t] = "running" => CanStep(t)
        /\ status[t] = "raised" =>
               /\ ret[t].fn = "NotImplementedError"
               /\ objects[ret[t].obj].kind = "Triangle"

\* the most steps render_ray(ray, d) takes: four at a depth above the limit, five
\* more for every depth up to it
StepsFrom(d) == 4 + 5 * Max(0, 16 - d)

\* the most steps the frame on top of the stack still takes, its callees included
TopSteps(f) ==
    IF f.pc = "start" THEN StepsFrom(f.bouncenum)
    ELSE IF f.pc = "append" THEN StepsFrom(f.bouncenum) - 2
    ELSE IF f.pc = "check" THEN StepsFrom(f.bouncenum) - 3
    ELSE 1

\* the most steps thread t still takes: one for every waiting frame
StepsLeft(t) ==
    IF stack[t] = <<>> THEN 0 ELSE Len(stack[t]) - 1 + TopSteps(Top(t))

\* C1 amended: render_ray terminates after at most max(0, 16 - depth) nested calls
\* of render_ray, returning a scalar or, when a Triangle is the nearest hit of a
\* ray on the way, raising NotImplementedError; the depth goes up by 1 with every
\* bounce and no nested call is made from a depth above 15. Termination: a running
\* evaluation is always at one of its steps, and every step lowers StepsLeft.
C1_Terminates ==
    /\ []C1_Bounded
    /\ [][\A t \in Threads : Step(t) =>
              (StepsLeft(t)' < StepsLeft(t) /\ StepsLeft(t)' >= 0)]_vars

\* sixteen levels have run: the first call was at depth 1 and the limit branch ended it
C1_Witness ==
    /\ status[1] = "done"
    /\ entry[1].bouncenum = 1
    /\ calls[1] = 15

\* C7 as stated: a Triangle asked to bounce (get_bounced_ray) or to shade
\* (render_intersection, as the nearest hit of render_ray) raises
\* NotImplementedError; it never returns a value.
C7_Original ==
    /\ (query.op = "get_bounced_ray" /\ objects[query.obj].kind = "Triangle") =>
           query.outcome = "NotImplementedError"
    /\ \A t \in Threads :
           /\ \A k \in 1..Len(stack[t]) :
                  stack[t][k].fn = "render_intersection" =>
                      objects[stack[t][k].obj].kind # "Triangle"
           /\ ret[t].fn = "render_intersection" => objects[ret[t].obj].kind # "Triangle"

\* C9: whatever the interleaving of two render_ray evaluations over one World,
\* each returns what it returns alone (and raises when it raises alone).
C9_SameAsAlone ==
    \A t \in Threads :
        /\ status[t] = "done" =>
               result[t] = RadianceAlone(objects, lights, entry[t].ray, entry[t].bouncenum)
        /\ status[t] = "raised" =>
               RadianceAlone(objects, lights, entry[t].ray, entry[t].bouncenum) = Raised

\* thread 2 ran from call to return while thread 1 stood between its append and
\* its reset of bounces: it found thread 1's entries in the list and reset them away
C9_Witness ==
    /\ status[2] = "done"
    /\ entry[2].bounces # <<>>
    /\ calls[2] > 0
    /\ bounces = <<>>
    /\ status[1] = "running"
    /\ Top(1).fn = "render_intersection"
    /\ Top(1).pc = "check"
    /\ Top(1).bouncenum > BOUNCELIMIT

====
